---- MODULE Spec2Model ----
(***************************************************************************)
(* Motion sequencer of the robot backend: the RobotController singleton    *)
(* (controls/robot_control.py) and the robot tools built on it             *)
(* (ai/tools.py); the camera's frame bus (perception/stream.py), the      *)
(* depth sampler reading from it (perception/depth.py), the localizer      *)
(* tools find_object and get_depth (ai/tools.py) and the frame store       *)
(* behind the image endpoint (state.py, main.py).                          *)
(*                                                                         *)
(* Lengths are integers counting tenths of the source's unit, so that the  *)
(* home height 0.3 is 3, the grip offset 10 is 100 and the lift 100.0 is   *)
(* 1000.  An optional argument (Python None) is the empty sequence <<>>,   *)
(* a supplied one is <<v>>.                                                *)
(*                                                                         *)
(* Each caller runs one operation at a time.  A step of the model is the   *)
(* code between two suspension points (await asyncio.sleep) of a call.     *)
(***************************************************************************)
EXTENDS Integers, Sequences, FiniteSets, TLC

\* ---------------------------------------------------------------- bounds
NumCallers == 2
\* Devices the frame bus may open in a run.
MaxSessions == 2
\* Color frames the camera delivers in a run.
MaxFrames == 2
\* The two sides of the depth frames: they are FrameShort x FrameLong, lying
\* or standing.
FrameLong == 13
FrameShort == 2
\* images the frame store takes
MaxImages == 2

Callers == 1..NumCallers
\* Identities of the nested position/orientation dicts that can be alive at
\* once: the cached pose's and one per caller holding a returned pose.
Gens == 1..(NumCallers + 1)

\* Targets of direct move_to_pose calls (x, y, z).
Points == { <<1000, 500, 2000>> }
\* Orientation arguments of direct move_to_pose calls (roll, pitch, yaw).
OrientArgs == { << <<>>, <<>>, <<>> >>, << <<1>>, <<>>, <<1>> >> }
\* Camera-frame coordinates (x_mm, y_mm, z_mm) handed to pickup_object; <<>>
\* is a missing one.
PickArgs == { << <<0>>, <<0>>, <<0>> >>, << <<40>>, <<10>>, <<20>> >>,
              << <<>>, <<>>, <<>> >>, << <<40>>, <<>>, <<20>> >> }
\* Values a caller may store into a pose it was handed.
CallerWrites == { 7 }

\* Normalized image coordinates handed to the depth sampler, as <<numerator,
\* denominator>>: below 0, 0, inside, exactly 1, above 1.
NormCoords == { <<-1, 2>>, <<0, 1>>, <<1, 2>>, <<1, 1>>, <<3, 2>> }
\* Shapes <<height, width>> of the depth frames.
Shapes == { <<FrameShort, FrameLong>>, <<FrameLong, FrameShort>> }
\* Places along the long side where a depth frame may have a valid sample.
MarkPlaces == { 0, 1, 5, 11, FrameLong - 1 }

\* ------------------------------------------------------- program constants
HomeZ == 3
GripOffset == 100
LiftOffset == 1000
\* get_depth_at_point: roi_size, range(5), and twice the fallback focal
\* length 882.5 (focal lengths and principal points are counted in halves
\* of a pixel).
roi_size == 5
Retries == 5
DefaultFocal2 == 1765

Pos(x, y, z) == [x |-> x, y |-> y, z |-> z]
Ori(r, p, w) == [roll |-> r, pitch |-> p, yaw |-> w]

\* RobotController.__init__: the pose the controller starts with.
InitPose == [position |-> Pos(0, 0, 0), orientation |-> Ori(0, 0, 0)]
\* RobotController.__init__: home_pose.
home_pose == [position |-> Pos(0, 0, HomeZ), orientation |-> Ori(0, 0, 0)]

VARIABLES
  is_connected,   \* RobotController.is_connected
  gripper_state,  \* RobotController.gripper_state
  current_pose,   \* identity of the nested dicts RobotController.current_pose refers to
  heap,           \* the live nested dicts: identity -> their contents
  snap,           \* per caller: identity of the nested dicts of the pose it was handed (0: none)
  task            \* per caller: the call in progress and the result of the last one

VARIABLES
  manager,        \* the CameraManager singleton: its fields (0 is None)
  sessions,       \* devices opened so far; a device, its pipeline and its queues carry its number
  colorq,         \* the frame waiting in the running device's color queue (0: none)
  depthq,         \* is a frame waiting in the running device's depth queue
  frames_sent,    \* color frames the camera has delivered so far
  scene,          \* the depth frame the camera produces
  got,            \* per caller: its last read of the bus and what it returned
  bus_call,       \* the last start() or stop() and how it ended
  sample          \* the get_depth_at_point call in progress and the result of the last one

\* The frame store (state.py), the last call of a localizer tool and the last
\* answer of the image endpoint.
VARIABLES image_store, loc, fetched

locvars == <<image_store, loc, fetched>>

camvars == <<manager, sessions, colorq, depthq, frames_sent, scene, got, bus_call, sample, locvars>>

robotvars == <<is_connected, gripper_state, current_pose, heap, snap, task>>

vars == <<is_connected, gripper_state, current_pose, heap, snap, task, camvars>>

\* The value of the cached pose.
PoseValue == heap[current_pose]

NoResult == [kind |-> "none", msg |-> "", data |-> <<>>]
Returned(m, d) == [kind |-> "value", msg |-> m, data |-> d]
Raised(e) == [kind |-> "raised", msg |-> e, data |-> <<>>]

NoTarget == InitPose

\* A call as it is invoked.  pc is where the call stands ("idle": it has
\* ended, and the record keeps what it did), target is move_to_pose's local
\* target_pose, ref the cached pose the call read, find what find_object came
\* back with, attempts the connects the call made, cmds the robot commands
\* it issued.
NewCall(nm, args) ==
  [pc |-> "idle", op |-> nm, args |-> args, target |-> NoTarget, ref |-> InitPose,
   find |-> "", attempts |-> 0, cmds |-> <<>>, result |-> NoResult]

\* The call ends with a result.  A move's locals end with it.
Finish(t, res) ==
  [t EXCEPT !.pc = "idle", !.target = NoTarget, !.result = res,
            !.ref = IF t.pc = "moving" THEN InitPose ELSE t.ref]

\* What find_object (called by pickup_object without coordinates) can come
\* back with: a result string, an error dict, or the camera failing to start.
FindOutcomes == { "found", "error", "raised" }

\* ------------------------------------------------------------ pure helpers

\* A move_to_pose that zeroes the orientation components it was not given.
target_pose_forgets_orientation(cur, x, y, z, roll, pitch, yaw) ==
  [position |-> Pos(x, y, z),
   orientation |-> Ori(IF roll # <<>> THEN roll[1] ELSE 0,
                       IF pitch # <<>> THEN pitch[1] ELSE 0,
                       IF yaw # <<>> THEN yaw[1] ELSE 0)]

\* move_to_pose: the target pose it builds before moving; an orientation
\* component that is not supplied is read from the cached pose.
target_pose(cur, x, y, z, roll, pitch, yaw) ==
  [position |-> Pos(x, y, z),
   orientation |-> Ori(IF roll # <<>> THEN roll[1] ELSE cur.orientation.roll,
                       IF pitch # <<>> THEN pitch[1] ELSE cur.orientation.pitch,
                       IF yaw # <<>> THEN yaw[1] ELSE cur.orientation.yaw)]

\* _pickup_object_async: the camera -> robot transform and the lift height.
x_target(start_x, cam_y) == start_x + cam_y
y_target(start_y, cam_x) == start_y - cam_x
z_target(start_z, cam_z) == start_z - cam_z - GripOffset
lift_z(zt) == zt + LiftOffset

\* _pickup_object_async: were all three coordinates provided?
coords_given(args) == args[1] # <<>> /\ args[2] # <<>> /\ args[3] # <<>>

MoveCmd(x, y, z) == [cmd |-> "move_to_pose", at |-> <<x, y, z>>]
GripCmd(nm) == [cmd |-> nm, at |-> <<>>]

\* dict identities referenced by the callers' poses
SnapRefs(sn) == { sn[c] : c \in Callers } \ {0}
\* dicts nobody refers to any more are gone
Collect(h, cp, sn) == [g \in {cp} \cup SnapRefs(sn) |-> h[g]]
\* the identity given to newly built nested dicts
FreshGen(sn) == CHOOSE g \in Gens \ SnapRefs(sn) : \A k \in Gens \ SnapRefs(sn) : g <= k

\* self.current_pose = target_pose: the cache now refers to the new dicts.
StorePose(tgt) ==
  LET new == FreshGen(snap) IN
  /\ current_pose' = new
  /\ heap' = [g \in SnapRefs(snap) \cup {new} |-> IF g = new THEN tgt ELSE heap[g]]

\* What a call returns when its robot command did not succeed: the
\* controller's False, or the tool's error message built on it.
Failure(nm) ==
  CASE nm = "open_gripper_async" -> Returned("Error: Failed to open gripper.", <<>>)
    [] nm = "close_gripper_async" -> Returned("Error: Failed to close gripper.", <<>>)
    [] nm = "go_home_async" -> Returned("Error: Failed to move to home position.", <<>>)
    [] OTHER -> Returned("False", <<>>)

\* RobotController.move_to_pose up to its sleep: refused when not connected
\* (conn is is_connected as the method reads it), else the target is built
\* and the command issued.
MoveIssue(t, conn, x, y, z, roll, pitch, yaw) ==
  IF ~conn
  THEN Finish(t, Failure(t.op))
  ELSE [t EXCEPT !.pc = "moving",
                 !.ref = PoseValue,
                 !.target = target_pose(PoseValue, x, y, z, roll, pitch, yaw),
                 !.cmds = Append(t.cmds, MoveCmd(x, y, z))]

\* RobotController.go_home up to its sleep: move_to_pose to home_pose.
HomeIssue(t, conn) ==
  IF ~conn
  THEN Finish(t, Failure(t.op))
  ELSE MoveIssue(t, conn, home_pose.position.x, home_pose.position.y, home_pose.position.z,
                 <<home_pose.orientation.roll>>, <<home_pose.orientation.pitch>>,
                 <<home_pose.orientation.yaw>>)

\* RobotController.open_gripper / close_gripper up to the sleep.
GripIssue(t, conn, nm) ==
  IF ~conn
  THEN Finish(t, Failure(t.op))
  ELSE [t EXCEPT !.pc = "gripping", !.cmds = Append(t.cmds, GripCmd(nm))]

\* A pick-up that goes on to open the gripper once it has localized the
\* object it was given no coordinates for.
AfterConnected_picks_localized(t, conn, f) ==
  CASE t.op = "open_gripper_async" -> GripIssue(t, conn, "open_gripper")
    [] t.op = "close_gripper_async" -> GripIssue(t, conn, "close_gripper")
    [] t.op = "go_home_async" -> HomeIssue(t, conn)
    [] t.op = "pickup_object_async" ->
         IF coords_given(t.args)
         THEN Finish([t EXCEPT !.ref = PoseValue], Raised("TypeError"))
         ELSE IF f = "raised" THEN Finish([t EXCEPT !.find = f], Raised("camera"))
         ELSE IF f = "error"
              THEN Finish([t EXCEPT !.find = f], Returned("Error: Could not find", <<>>))
              ELSE GripIssue([t EXCEPT !.find = f], conn, "open_gripper")
    [] t.op = "get_robot_pose_async" ->
         Finish([t EXCEPT !.ref = PoseValue], Raised("TypeError"))

\* The part of a tool that follows its connection check, up to its next
\* suspension point or its return; conn is is_connected at that point.
AfterConnected(t, conn, f) ==
  CASE t.op = "open_gripper_async" -> GripIssue(t, conn, "open_gripper")
    [] t.op = "close_gripper_async" -> GripIssue(t, conn, "close_gripper")
    [] t.op = "go_home_async" -> HomeIssue(t, conn)
    [] t.op = "pickup_object_async" ->
         IF coords_given(t.args)
         THEN \* current_pose = await robot_controller.get_pose(): get_pose is a
              \* plain method; the dict it returns cannot be awaited (TypeError)
              Finish([t EXCEPT !.ref = PoseValue], Raised("TypeError"))
         ELSE IF f = "raised" THEN Finish([t EXCEPT !.find = f], Raised("camera"))
         ELSE IF f = "error"
              THEN Finish([t EXCEPT !.find = f], Returned("Error: Could not find", <<>>))
              ELSE Finish([t EXCEPT !.find = f],
                          Returned("Error: Coordinates not available.", <<>>))
    [] t.op = "get_robot_pose_async" ->
         \* pose = await robot_controller.get_pose(): raises TypeError
         Finish([t EXCEPT !.ref = PoseValue], Raised("TypeError"))

\* A tool's entry: one connect if the controller is not connected.
ToolEntry(nm, args, f) ==
  IF is_connected
  THEN AfterConnected(NewCall(nm, args), is_connected, f)
  ELSE [NewCall(nm, args) EXCEPT !.pc = "connecting", !.attempts = 1]

\* ------------------------------------------------- RobotController methods

connect(c) ==
  /\ task[c].pc = "idle"
  /\ task' = [task EXCEPT ![c] =
                [NewCall("connect", <<>>) EXCEPT !.pc = "connecting", !.attempts = 1]]
  /\ UNCHANGED <<is_connected, gripper_state, current_pose, heap, snap, camvars>>

\* The connect a call is waiting in ends: it succeeded or it raised.
connect_wake(c) ==
  /\ task[c].pc = "connecting"
  /\ \E ok \in BOOLEAN :
     \E f \in (IF ok /\ task[c].op = "pickup_object_async" /\ ~coords_given(task[c].args)
              THEN FindOutcomes ELSE {"found"}) :
       LET t == task[c] IN
       /\ is_connected' = IF ok THEN TRUE ELSE is_connected
       /\ task' = [task EXCEPT ![c] =
            IF t.op = "connect"
            THEN Finish(t, Returned(IF ok THEN "True" ELSE "False", <<>>))
            ELSE IF ok
                 THEN AfterConnected(t, TRUE, f)
                 ELSE Finish(t, Returned("Error: Failed to connect to robot.", <<>>))]
  /\ UNCHANGED <<gripper_state, current_pose, heap, snap, camvars>>

\* A disconnect that forgets what the gripper was left as.
disconnect_forgets_gripper(c) ==
  /\ task[c].pc = "idle"
  /\ is_connected' = FALSE
  /\ gripper_state' = "unknown"
  /\ task' = [task EXCEPT ![c] = Finish(NewCall("disconnect", <<>>), Returned("True", <<>>))]
  /\ UNCHANGED <<current_pose, heap, snap, camvars>>

disconnect(c) ==
  /\ task[c].pc = "idle"
  /\ is_connected' = FALSE
  /\ task' = [task EXCEPT ![c] = Finish(NewCall("disconnect", <<>>), Returned("True", <<>>))]
  /\ UNCHANGED <<gripper_state, current_pose, heap, snap, camvars>>

\* return self.current_pose.copy(): a new outer dict whose "position" and
\* "orientation" are the cache's own nested dicts.
get_pose(c) ==
  /\ task[c].pc = "idle"
  /\ snap' = [snap EXCEPT ![c] = current_pose]
  /\ heap' = Collect(heap, current_pose, snap')
  /\ task' = [task EXCEPT ![c] = Finish(NewCall("get_pose", <<>>), Returned("pose", <<>>))]
  /\ UNCHANGED <<is_connected, gripper_state, current_pose, camvars>>

get_status(c) ==
  /\ task[c].pc = "idle"
  /\ snap' = [snap EXCEPT ![c] = current_pose]
  /\ heap' = Collect(heap, current_pose, snap')
  /\ task' = [task EXCEPT ![c] =
                Finish(NewCall("get_status", <<>>),
                       Returned("status", <<is_connected, gripper_state>>))]
  /\ UNCHANGED <<is_connected, gripper_state, current_pose, camvars>>

get_gripper_state(c) ==
  /\ task[c].pc = "idle"
  /\ task' = [task EXCEPT ![c] =
                Finish(NewCall("get_gripper_state", <<>>), Returned(gripper_state, <<>>))]
  /\ UNCHANGED <<is_connected, gripper_state, current_pose, heap, snap, camvars>>

move_to_pose(c) ==
  /\ task[c].pc = "idle"
  /\ \E p \in Points, o \in OrientArgs :
       task' = [task EXCEPT ![c] =
                  MoveIssue(NewCall("move_to_pose", <<p[1], p[2], p[3], o[1], o[2], o[3]>>),
                            is_connected, p[1], p[2], p[3], o[1], o[2], o[3])]
  /\ UNCHANGED <<is_connected, gripper_state, current_pose, heap, snap, camvars>>

go_home(c) ==
  /\ task[c].pc = "idle"
  /\ task' = [task EXCEPT ![c] = HomeIssue(NewCall("go_home", <<>>), is_connected)]
  /\ UNCHANGED <<is_connected, gripper_state, current_pose, heap, snap, camvars>>

\* The move a call is waiting in ends: the pose is stored, or it raised.
move_wake(c) ==
  /\ task[c].pc = "moving"
  /\ \E ok \in BOOLEAN :
       LET t == task[c] IN
       /\ IF ok THEN StorePose(t.target) ELSE UNCHANGED <<current_pose, heap>>
       /\ task' = [task EXCEPT ![c] =
            IF ~ok THEN Finish(t, Failure(t.op))
            ELSE IF t.op = "go_home_async"
                 THEN \* the message reports robot_controller.current_pose
                      Finish(t, Returned("Robot moved to home position successfully.",
                                         <<t.target.position.x, t.target.position.y,
                                           t.target.position.z>>))
                 ELSE Finish(t, Returned("True", <<>>))]
  /\ UNCHANGED <<is_connected, gripper_state, snap, camvars>>

open_gripper(c) ==
  /\ task[c].pc = "idle"
  /\ task' = [task EXCEPT ![c] = GripIssue(NewCall("open_gripper", <<>>), is_connected, "open_gripper")]
  /\ UNCHANGED <<is_connected, gripper_state, current_pose, heap, snap, camvars>>

close_gripper(c) ==
  /\ task[c].pc = "idle"
  /\ task' = [task EXCEPT ![c] = GripIssue(NewCall("close_gripper", <<>>), is_connected, "close_gripper")]
  /\ UNCHANGED <<is_connected, gripper_state, current_pose, heap, snap, camvars>>

\* A gripper command that marks the controller disconnected when it fails.
gripper_wake_drops_connection(c) ==
  /\ task[c].pc = "gripping"
  /\ \E ok \in BOOLEAN :
       LET t == task[c]
           opening == t.op \in {"open_gripper", "open_gripper_async"}
           g == IF ~ok THEN gripper_state ELSE IF opening THEN "open" ELSE "closed"
       IN
       /\ gripper_state' = g
       /\ is_connected' = IF ok THEN is_connected ELSE FALSE
       /\ task' = [task EXCEPT ![c] =
            IF ~ok THEN Finish(t, Failure(t.op))
            ELSE IF t.op \in {"open_gripper_async", "close_gripper_async"}
                 THEN Finish(t, Returned(IF opening THEN "Gripper opened successfully."
                                                    ELSE "Gripper closed successfully.", <<g>>))
                 ELSE Finish(t, Returned("True", <<>>))]
  /\ UNCHANGED <<current_pose, heap, snap, camvars>>

\* The gripper command a call is waiting in ends: the state is stored, or
\* it raised.
gripper_wake(c) ==
  /\ task[c].pc = "gripping"
  /\ \E ok \in BOOLEAN :
       LET t == task[c]
           opening == t.op \in {"open_gripper", "open_gripper_async"}
           g == IF ~ok THEN gripper_state ELSE IF opening THEN "open" ELSE "closed"
       IN
       /\ gripper_state' = g
       /\ task' = [task EXCEPT ![c] =
            IF ~ok THEN Finish(t, Failure(t.op))
            ELSE IF t.op \in {"open_gripper_async", "close_gripper_async"}
                 THEN \* the message reports robot_controller.gripper_state
                      Finish(t, Returned(IF opening THEN "Gripper opened successfully."
                                                    ELSE "Gripper closed successfully.", <<g>>))
                 ELSE Finish(t, Returned("True", <<>>))]
  /\ UNCHANGED <<is_connected, current_pose, heap, snap, camvars>>

\* ------------------------------------------------------------- robot tools

open_gripper_async(c) ==
  /\ task[c].pc = "idle"
  /\ task' = [task EXCEPT ![c] = ToolEntry("open_gripper_async", <<>>, "found")]
  /\ UNCHANGED <<is_connected, gripper_state, current_pose, heap, snap, camvars>>

close_gripper_async(c) ==
  /\ task[c].pc = "idle"
  /\ task' = [task EXCEPT ![c] = ToolEntry("close_gripper_async", <<>>, "found")]
  /\ UNCHANGED <<is_connected, gripper_state, current_pose, heap, snap, camvars>>

go_home_async(c) ==
  /\ task[c].pc = "idle"
  /\ task' = [task EXCEPT ![c] = ToolEntry("go_home_async", <<>>, "found")]
  /\ UNCHANGED <<is_connected, gripper_state, current_pose, heap, snap, camvars>>

pickup_object_async(c) ==
  /\ task[c].pc = "idle"
  /\ \E a \in PickArgs :
       \E f \in (IF is_connected /\ ~coords_given(a) THEN FindOutcomes ELSE {"found"}) :
         task' = [task EXCEPT ![c] = ToolEntry("pickup_object_async", a, f)]
  /\ UNCHANGED <<is_connected, gripper_state, current_pose, heap, snap, camvars>>

get_robot_pose_async(c) ==
  /\ task[c].pc = "idle"
  /\ task' = [task EXCEPT ![c] = ToolEntry("get_robot_pose_async", <<>>, "found")]
  /\ UNCHANGED <<is_connected, gripper_state, current_pose, heap, snap, camvars>>

\* ------------------------------------------------------------------ callers

\* A caller stores into the nested position dict of the pose it was handed.
caller_write(c) ==
  /\ snap[c] # 0
  /\ \E v \in CallerWrites : heap' = [heap EXCEPT ![snap[c]].position.x = v]
  /\ UNCHANGED <<is_connected, gripper_state, current_pose, snap, task, camvars>>

\* ---------------------------------------------------------------- frame bus
\* CameraManager (perception/stream.py).  A device, the pipeline built on it
\* and the queues created from that pipeline carry the number of the device;
\* 0 is None.

\* CameraManager.__init__
CameraManagerInit ==
  [running |-> FALSE, device |-> 0, pipeline |-> 0, queue |-> 0,
   spatialLocationCalculator |-> 0, spatialQueue |-> 0, configQueue |-> 0,
   depthQueue |-> 0, intrinsics |-> <<>>]

\* The intrinsics a device's calibration holds (fx, fy, cx, cy), in halves of
\* a pixel: fx = fy = 1000.0, cx = 6.0, cy = 1.5.
DeviceIntrinsics == [fx2 |-> 2000, fy2 |-> 2000, cx2 |-> 12, cy2 |-> 3]

\* How far start() gets: dai.Device() raises, getConnectedCameras() is
\* empty, pipeline.start() raises, or the camera starts.
StartOutcomes == { "no_device", "no_cameras", "pipeline_failed", "started" }
\* How far the stereo-depth block of start() gets: all of it, nothing of it
\* that is kept, or everything but the depth queue.
StereoOutcomes == { "ok", "no_stereo", "no_depth_queue" }
\* device.close() in stop(): it closes or it raises.
CloseOutcomes == { "closed", "raised" }

NoBusCall == [op |-> "none", outcome |-> "", device |-> 0, close |-> ""]
BusCall(o, r, d, cl) == [op |-> o, outcome |-> r, device |-> d, close |-> cl]

\* A start() that goes on although the bus is running.
already_running_ignored(m) == FALSE

\* start(): if self.running: return
already_running(m) == m.running

\* The fields as stop() leaves them.
Stopped(m) == [m EXCEPT !.running = FALSE, !.device = 0, !.pipeline = 0, !.queue = 0]

\* load_calibration_from_device(): the intrinsics are stored when the
\* calibration could be read (cal), else left as they are.
Calibrated(m, cal) == IF cal THEN [m EXCEPT !.intrinsics = <<DeviceIntrinsics>>] ELSE m

\* The stereo-depth block of start() on device s.
WithStereo(m, s, st) ==
  CASE st = "ok" ->
         [m EXCEPT !.spatialLocationCalculator = s, !.spatialQueue = s,
                   !.configQueue = s, !.depthQueue = s]
    [] st = "no_depth_queue" ->
         [m EXCEPT !.spatialLocationCalculator = 0, !.spatialQueue = s, !.configQueue = s]
    [] OTHER -> [m EXCEPT !.spatialLocationCalculator = 0]

\* The fields when the try block of start() ends, normally or by raising.
Started(m, s, o, st, cal) ==
  IF o = "no_device" THEN m
  ELSE LET m1 == Calibrated([m EXCEPT !.device = s], cal)
           m2 == [m1 EXCEPT !.pipeline = s]
       IN IF o = "no_cameras" THEN m2
          ELSE LET m3 == WithStereo([m2 EXCEPT !.queue = s], s, st)
               IN IF o = "pipeline_failed" THEN m3 ELSE [m3 EXCEPT !.running = TRUE]

\* start() on a bus that is not running: what it does to the bus.
Starting(o, st, cal, cl) ==
  LET s == sessions + 1
      m == Started(manager, s, o, st, cal)
  IN /\ manager' = IF o = "started" THEN m ELSE Stopped(m)
     /\ sessions' = IF o = "no_device" THEN sessions ELSE s
     /\ bus_call' = BusCall("start", IF o = "started" THEN "returned" ELSE "raised",
                            IF o = "no_device" THEN 0 ELSE s,
                            IF o = "started" \/ m.device = 0 THEN "" ELSE cl)
     /\ colorq' = 0
     /\ depthq' = FALSE

start ==
  IF already_running(manager)
  THEN /\ bus_call' = BusCall("start", "returned", 0, "")
       /\ UNCHANGED <<manager, sessions, colorq, depthq, frames_sent, scene, got, sample>>
       /\ UNCHANGED <<robotvars, locvars>>
  ELSE /\ sessions < MaxSessions
       /\ \E o \in StartOutcomes, st \in StereoOutcomes, cal \in BOOLEAN, cl \in CloseOutcomes :
            Starting(o, st, cal, cl)
       /\ UNCHANGED <<frames_sent, scene, got, sample>>
       /\ UNCHANGED <<robotvars, locvars>>

stop ==
  /\ manager' = Stopped(manager)
  /\ \E cl \in CloseOutcomes :
       bus_call' = BusCall("stop", "returned", manager.device,
                           IF manager.device = 0 THEN "" ELSE cl)
  /\ colorq' = 0
  /\ depthq' = FALSE
  /\ UNCHANGED <<sessions, frames_sent, scene, got, sample>>
  /\ UNCHANGED <<robotvars, locvars>>

\* The running camera puts a color frame into its color queue (maxSize=1,
\* blocking=False: it takes the place of the one waiting).
frame_arrives ==
  /\ manager.running
  /\ manager.queue # 0
  /\ manager.queue = manager.device
  /\ frames_sent < MaxFrames
  /\ frames_sent' = frames_sent + 1
  /\ colorq' = frames_sent + 1
  /\ UNCHANGED <<manager, sessions, depthq, scene, got, bus_call, sample>>
  /\ UNCHANGED <<robotvars, locvars>>

\* The running camera puts a depth frame into its depth queue.
depth_arrives ==
  /\ manager.running
  /\ manager.depthQueue # 0
  /\ manager.depthQueue = manager.device
  /\ ~depthq
  /\ depthq' = TRUE
  /\ UNCHANGED <<manager, sessions, colorq, frames_sent, scene, got, bus_call, sample>>
  /\ UNCHANGED <<robotvars, locvars>>

\* What a get_frame() returns (0: None).
FrameRead(m, cq) == IF ~m.running \/ m.queue = 0 THEN 0 ELSE cq

\* What a get_depth_frame() can come back with: None, a frame, or an
\* exception; what tryGet() does on the queue of a device that was closed is
\* the driver's choice.
DepthReads(m, dq) ==
  IF ~m.running \/ m.depthQueue = 0 THEN { "none" }
  ELSE IF m.depthQueue = m.device THEN { IF dq THEN "frame" ELSE "none" }
  ELSE { "none", "raised", "frame" }

\* The session a read is made in: the running device, 0 when not running.
Session(m) == IF m.running THEN m.device ELSE 0

get_frame(c) ==
  /\ got' = [got EXCEPT ![c] = [op |-> "get_frame", res |-> FrameRead(manager, colorq),
                                at |-> frames_sent, session |-> Session(manager)]]
  /\ colorq' = IF ~manager.running \/ manager.queue = 0 THEN colorq ELSE 0
  /\ UNCHANGED <<manager, sessions, depthq, frames_sent, scene, bus_call, sample>>
  /\ UNCHANGED <<robotvars, locvars>>

get_depth_frame(c) ==
  /\ \E r \in DepthReads(manager, depthq) :
       /\ got' = [got EXCEPT ![c] = [op |-> "get_depth_frame",
                                     res |-> IF r = "frame" THEN 1 ELSE IF r = "none" THEN 0 ELSE -1,
                                     at |-> frames_sent, session |-> Session(manager)]]
       /\ depthq' = IF r = "frame" THEN FALSE ELSE depthq
  /\ UNCHANGED <<manager, sessions, colorq, frames_sent, scene, bus_call, sample>>
  /\ UNCHANGED <<robotvars, locvars>>

CamInit ==
  /\ manager = CameraManagerInit
  /\ sessions = 0
  /\ colorq = 0
  /\ depthq = FALSE
  /\ frames_sent = 0
  /\ got = [c \in Callers |-> [op |-> "none", res |-> 0, at |-> 0, session |-> 0]]
  /\ bus_call = NoBusCall

\* ------------------------------------------------------------ depth sampler
\* get_depth_at_point (perception/depth.py).  A depth frame is its shape and
\* its samples d[<<row, col>>], 0 an invalid one.  Depths that are medians
\* can be halves, so the depth in use is carried doubled (z2).

Pixels(h, w) == (0..(h - 1)) \X (0..(w - 1))

\* The pixel at place i along the long side of a frame.
Mark(h, w, i) == IF h <= w THEN <<i % h, i>> ELSE <<i, i % w>>
\* The depth the scene has at a marked pixel.
MarkDepth(i) == 1500 + 101 * i

\* The depth frames the camera can produce: every choice of marked pixels
\* that carry a valid sample, in every shape.
DepthFrame(sh, on) ==
  [h |-> sh[1], w |-> sh[2],
   d |-> [p \in Pixels(sh[1], sh[2]) |->
            IF \E i \in on : p = Mark(sh[1], sh[2], i)
            THEN MarkDepth(CHOOSE i \in on : p = Mark(sh[1], sh[2], i))
            ELSE 0]]

DepthFrames == { DepthFrame(sh, on) : sh \in Shapes, on \in SUBSET MarkPlaces }

\* A frame without a valid sample.
BlankScene ==
  [h |-> FrameShort, w |-> FrameLong, d |-> [p \in Pixels(FrameShort, FrameLong) |-> 0]]

Min(a, b) == IF a <= b THEN a ELSE b
Max(a, b) == IF a >= b THEN a ELSE b
\* int(): the quotient a / b (b > 0) truncated toward zero.
Trunc(a, b) == IF a >= 0 THEN a \div b ELSE -((-a) \div b)

\* A conversion that clamps below only.
pixel_clamped_below(n, size) == Max(0, Trunc(n[1] * size, n[2]))

\* pixel = int(n * size), clamped into 0..size-1.
pixel(n, size) == Max(0, Min(size - 1, Trunc(n[1] * size, n[2])))

\* The bounds x1, x2, y1, y2 of the window around a pixel.
roi(px, py, w, h) ==
  [x1 |-> Max(0, px - roi_size), x2 |-> Min(w, px + roi_size + 1),
   y1 |-> Max(0, py - roi_size), y2 |-> Min(h, py + roi_size + 1)]

\* The pixels of depth_frame[y1:y2, x1:x2].
RoiPixels(r) == (r.y1..(r.y2 - 1)) \X (r.x1..(r.x2 - 1))

\* A window that keeps its invalid samples.
valid_depths_all(f, r) == RoiPixels(r) \cap DOMAIN f.d

\* roi[roi > 0]: the pixels of the window with a valid sample.
valid_depths(f, r) == { p \in RoiPixels(r) \cap DOMAIN f.d : f.d[p] > 0 }

\* The k-th smallest of the samples at pixels P.
Kth(f, P, k) ==
  CHOOSE v \in { f.d[p] : p \in P } :
    /\ Cardinality({ p \in P : f.d[p] < v }) < k
    /\ Cardinality({ p \in P : f.d[p] <= v }) >= k

\* Twice np.median of the samples at pixels P (P not empty).
median2(f, P) ==
  LET n == Cardinality(P) IN
  IF n % 2 = 1 THEN 2 * Kth(f, P, (n + 1) \div 2)
  ELSE Kth(f, P, n \div 2) + Kth(f, P, n \div 2 + 1)

\* A sampler that takes every depth for a valid one.
invalid_depth_accepted(z2) == FALSE

\* if z == 0: the depth is invalid.
invalid_depth(z2) == z2 = 0

\* x_mm = int((pixel_x - cx) * z / fx)
x_mm(px, cx2, z2, fx2) == Trunc((2 * px - cx2) * z2, 2 * fx2)

\* A projection that keeps the image's downward y.
y_mm_downward(py, cy2, z2, fy2) == Trunc((2 * py - cy2) * z2, 2 * fy2)

\* y_mm = int(-(pixel_y - cy) * z / fy)
y_mm(py, cy2, z2, fy2) == Trunc((0 - (2 * py - cy2)) * z2, 2 * fy2)

\* manager.fx if manager.fx else 882.5, and so on: the intrinsics in use.
Intrinsics(intr, f) ==
  [fx2 |-> IF intr # <<>> /\ intr[1].fx2 # 0 THEN intr[1].fx2 ELSE DefaultFocal2,
   fy2 |-> IF intr # <<>> /\ intr[1].fy2 # 0 THEN intr[1].fy2 ELSE DefaultFocal2,
   cx2 |-> IF intr # <<>> /\ intr[1].cx2 # 0 THEN intr[1].cx2 ELSE f.w,
   cy2 |-> IF intr # <<>> /\ intr[1].cy2 # 0 THEN intr[1].cy2 ELSE f.h]

NoSample ==
  [kind |-> "none", msg |-> "", x |-> 0, y |-> 0, z |-> 0, frame |-> 0,
   px |-> 0, py |-> 0, window |-> <<>>, z2 |-> 0]
SampleError(m) == [NoSample EXCEPT !.kind = "error", !.msg = m]

\* get_depth_at_point from the point where it holds depth frame f: the
\* pixel, its depth or the window's median, the projection, the color frame
\* of the bus (color).  Reading a pixel that is not in the frame raises
\* IndexError, which the function turns into an error result.
depth_at_point(f, x, y, intr, color) ==
  LET px == pixel(x, f.w)
      py == pixel(y, f.h)
  IN IF <<py, px>> \notin DOMAIN f.d
     THEN [SampleError("Failed to calculate depth") EXCEPT !.px = px, !.py = py]
     ELSE LET direct == f.d[<<py, px>>]
              r == roi(px, py, f.w, f.h)
              P == valid_depths(f, r)
              z2 == IF direct # 0 THEN 2 * direct
                    ELSE IF P # {} THEN median2(f, P) ELSE 0
              win == IF direct # 0 THEN <<>> ELSE <<r>>
              k == Intrinsics(intr, f)
          IN IF invalid_depth(z2)
             THEN [SampleError("Invalid depth (0) at point") EXCEPT
                     !.px = px, !.py = py, !.window = win]
             ELSE [kind |-> "point", msg |-> "",
                   x |-> x_mm(px, k.cx2, z2, k.fx2),
                   y |-> y_mm(py, k.cy2, z2, k.fy2),
                   z |-> Trunc(z2, 2),
                   frame |-> color, px |-> px, py |-> py, window |-> win, z2 |-> z2]

\* A retry loop that makes one more read.
last_read_late(reads) == reads = 2 + Retries

\* for _ in range(5): the read that ends the retries.
last_read(reads) == reads = 1 + Retries

NoSampleCall ==
  [pc |-> "idle", x |-> <<0, 1>>, y |-> <<0, 1>>, reads |-> 0, got_frame |-> FALSE,
   result |-> NoSample]

\* The sampler once a read of the depth queue came back with r, its n-th.
AfterDepthRead(t, r, n) ==
  CASE r = "raised" ->
         [t EXCEPT !.pc = "idle", !.reads = n,
                   !.result = SampleError("Failed to calculate depth")]
    [] r = "frame" ->
         [t EXCEPT !.pc = "idle", !.reads = n, !.got_frame = TRUE,
                   !.result = depth_at_point(scene, t.x, t.y, manager.intrinsics,
                                             FrameRead(manager, colorq))]
    [] OTHER ->
         IF last_read(n)
         THEN [t EXCEPT !.pc = "idle", !.reads = n,
                        !.result = SampleError("Could not get depth frame")]
         ELSE [t EXCEPT !.pc = "retry", !.reads = n]

\* The queues after that read: a depth frame that was read is gone, and so
\* is the color frame a successful sample attached.
SampleQueues(t2, r) ==
  /\ depthq' = IF r = "frame" THEN FALSE ELSE depthq
  /\ colorq' = IF t2.result.kind = "point"
                  /\ ~(~manager.running \/ manager.queue = 0) THEN 0 ELSE colorq

\* get_depth_at_point(x, y) up to its first sleep or its return.
get_depth_at_point ==
  /\ sample.pc = "idle"
  /\ \E x \in NormCoords, y \in NormCoords :
       LET t == [NoSampleCall EXCEPT !.x = x, !.y = y] IN
       IF ~manager.running \/ manager.pipeline = 0
       THEN /\ sample' = [t EXCEPT !.result = SampleError("Camera is not running")]
            /\ UNCHANGED <<depthq, colorq>>
       ELSE \E r \in DepthReads(manager, depthq) :
              /\ sample' = AfterDepthRead(t, r, 1)
              /\ SampleQueues(sample', r)
  /\ UNCHANGED <<manager, sessions, frames_sent, scene, got, bus_call>>
  /\ UNCHANGED <<robotvars, locvars>>

\* A retry of get_depth_at_point: time.sleep(0.05), then the next read.
depth_retry ==
  /\ sample.pc = "retry"
  /\ \E r \in DepthReads(manager, depthq) :
       /\ sample' = AfterDepthRead(sample, r, sample.reads + 1)
       /\ SampleQueues(sample', r)
  /\ UNCHANGED <<manager, sessions, frames_sent, scene, got, bus_call>>
  /\ UNCHANGED <<robotvars, locvars>>

\* -------------------------------------------------------- spatial localizer
\* find_object and get_depth (ai/tools.py), the frame store (state.py) and
\* the image endpoint (main.py).  A color frame is ColorShape.h rows of
\* ColorShape.w pixels; a segmentation mask is the set of the pixels
\* <<row, col>> that are set in it.  A pixel position is <<x, y>>.

ColorShape == [h |-> 8, w |-> 8]
ColorPixels == Pixels(ColorShape.h, ColorShape.w)

\* The disks segmentation can return, each <<2 * cx, 2 * cy, 2 * r>>: center
\* (4, 4) radius 2 and center (2.5, 5.5) radius 1.5.
DiskParams == { <<8, 8, 4>>, <<5, 11, 3>> }

Disk(k) ==
  { p \in ColorPixels :
      (2 * p[2] - k[1]) * (2 * p[2] - k[1]) + (2 * p[1] - k[2]) * (2 * p[1] - k[2])
        <= k[3] * k[3] }

\* What the segmentation step comes to: the model was not loaded, the call
\* raised, it returned no masks, or it returned a mask (a disk, an empty
\* mask or the whole frame).
NoMask(k) == [kind |-> k, mask |-> {}, disk |-> <<>>]
SamOutcomes(loaded) ==
  IF ~loaded THEN { NoMask("not_loaded") }
  ELSE { NoMask("raised"), NoMask("no_masks"), NoMask("mask"),
         [kind |-> "mask", mask |-> ColorPixels, disk |-> <<>>] }
       \cup { [kind |-> "mask", mask |-> Disk(k), disk |-> <<k>>] : k \in DiskParams }

\* The points the proposal model can name, [y, x] in thousandths.
ProposalPoints == { <<500, 500>>, <<250, 750>>, <<1000, 1000>> }

\* What the proposal step comes to: the call raised, its text is not JSON,
\* it is an empty list, or a list whose first candidate has a point.
ProposalOutcomes ==
  { [kind |-> k, point |-> <<>>] : k \in { "raised", "bad_json", "empty" } }
    \cup { [kind |-> "point", point |-> <<p>>] : p \in ProposalPoints }

\* The checks before the proposal: encoding the frame, the API key.
Prechecks == { "ok", "encode_failed", "no_key" }

\* The arguments of get_depth, <<x, y>> relative to the center.
DepthArgs == { <<0, 0>>, <<-400, 250>>, <<80, -120>> }

\* The scenes in front of the localizer.
LocateMarks == { {}, {5, 11}, {11, FrameLong - 1} }
LocateScenes == { DepthFrame(sh, on) : sh \in Shapes, on \in LocateMarks }

\* get_depth: width = 640, height = 400
VirtualW == 640
VirtualH == 400
\* find_object: norm / 1000.0
NormScale == 1000

NoLocate ==
  [op |-> "none", pc |-> "idle", sam_model |-> FALSE, kind |-> "none", msg |-> "",
   x |-> 0, y |-> 0, z |-> 0, z2 |-> 0, frame |-> 0,
   prop |-> [kind |-> "none", point |-> <<>>], sam |-> NoMask("none"),
   seed |-> <<>>, target |-> <<>>, sam_called |-> FALSE, sampler_called |-> FALSE,
   direct |-> "none", fallback |-> "none", image |-> <<>>, id |-> 0]

NewLocate(nm) == [NoLocate EXCEPT !.op = nm, !.sam_model = loc.sam_model]

LocateError(t, m) == [t EXCEPT !.kind = "error", !.msg = m]

\* A proposal step that takes an empty list for a candidate.
no_candidates_ignored(prop) == FALSE

\* if not data: the proposal has no candidate.
no_candidates(prop) == prop.kind = "empty"

\* pixel = int((norm_1000 / 1000.0) * size)
seed_pixel(n, size) == Trunc(n * size, NormScale)

\* The sum of the k-th coordinates of the pixels of a mask.
RECURSIVE Moment(_, _)
Moment(S, k) ==
  IF S = {} THEN 0
  ELSE LET p == CHOOSE q \in S : TRUE IN p[k] + Moment(S \ {p}, k)

\* A refinement to the corner of the mask's bounding box.
centroid_of_corner(mask) ==
  << CHOOSE x \in { p[2] : p \in mask } : \A p \in mask : x <= p[2],
     CHOOSE y \in { p[1] : p \in mask } : \A p \in mask : y <= p[1] >>

\* cX = int(M["m10"] / M["m00"]), cY = int(M["m01"] / M["m00"])
centroid(mask) ==
  << Trunc(Moment(mask, 2), Cardinality(mask)), Trunc(Moment(mask, 1), Cardinality(mask)) >>

\* cv2.resize(mask, (d_w, d_h), INTER_NEAREST): the pixel <<row, col>> of the
\* result takes the mask's pixel <<floor(row * m_h / d_h), floor(col * m_w / d_w)>>.
resize_nearest(mask, mh, mw, dh, dw) ==
  { q \in Pixels(dh, dw) :
      << Min(mh - 1, (q[1] * mh) \div dh), Min(mw - 1, (q[2] * mw) \div dw) >> \in mask }

\* Depths under the mask that keep the invalid samples.
under_mask_all(f, mask) ==
  resize_nearest(mask, ColorShape.h, ColorShape.w, f.h, f.w)

\* depth_frame[mask_resized > 0] and of these the samples > 0.
under_mask(f, mask) ==
  { q \in resize_nearest(mask, ColorShape.h, ColorShape.w, f.h, f.w) : f.d[q] > 0 }

\* The point the mask fallback returns for the pixel <<tx, ty>> of the color
\* frame: the median of the depths P, projected at norm * d_w, norm * d_h,
\* each coordinate passed through int().
mask_point(f, P, tx, ty, intr) ==
  LET z2 == median2(f, P)
      k == Intrinsics(intr, f)
  IN [x |-> Trunc((2 * tx * f.w - k.cx2 * ColorShape.w) * z2, 2 * ColorShape.w * k.fx2),
      y |-> Trunc((0 - (2 * ty * f.h - k.cy2 * ColorShape.h)) * z2, 2 * ColorShape.h * k.fy2),
      z |-> Trunc(z2, 2), z2 |-> z2]

\* What the reads of one get_depth_at_point call come to: the camera is not
\* running, no frame within the retries, a frame, or a raising read.
SamplerReads(m, dq) ==
  IF ~m.running \/ m.pipeline = 0 THEN { "not_running" }
  ELSE IF m.depthQueue = 0 THEN { "none" }
  ELSE IF m.depthQueue # m.device THEN { "none", "raised", "frame" }
  ELSE IF dq THEN { "frame" } ELSE { "none", "frame" }

\* Can the reads of the fallback (for _ in range(10)) come to a frame.
FallbackReads(m) ==
  IF m.running /\ m.depthQueue # 0 THEN BOOLEAN ELSE { FALSE }

\* get_depth_at_point(x, y) as a whole, its reads coming to r.
Sampler(m, r, x, y, color) ==
  CASE r = "not_running" -> SampleError("Camera is not running")
    [] r = "raised" -> SampleError("Failed to calculate depth")
    [] r = "frame" -> depth_at_point(scene, x, y, m.intrinsics, color)
    [] OTHER -> SampleError("Could not get depth frame")

\* The annotated image: the camera's frame, the mask blended over it, the
\* marker's pixel, the depth of the label.
Image(F, ov, mx, my, z) == [frame |-> F, overlay |-> ov, marker |-> <<mx, my>>, label |-> z]

\* find_object from the direct sample's result (direct) on: the mask fallback
\* over the valid depths P under the mask, the annotated image.
Fallback(t, F, m, sam, fr, direct, P) ==
  LET tx == t.target[1][1]
      ty == t.target[1][2]
      tried == direct.kind = "error" /\ t.sam_model /\ sam.kind = "mask"
      found == tried /\ fr /\ P # {}
      t1 == [t EXCEPT !.sampler_called = TRUE, !.direct = direct.kind,
                      !.fallback = IF ~tried THEN "none"
                                   ELSE IF found THEN "point" ELSE "failed"]
  IN IF direct.kind = "error" /\ ~found THEN LocateError(t1, direct.msg)
     ELSE LET res == IF found THEN mask_point(scene, P, tx, ty, m.intrinsics) ELSE direct
              img == Image(F, IF sam.kind = "mask" /\ sam.mask # {} THEN <<sam.mask>> ELSE <<>>,
                           Max(0, Min(ColorShape.w - 1, tx)),
                           Max(0, Min(ColorShape.h - 1, ty)), res.z)
          IN [t1 EXCEPT !.kind = "value", !.x = res.x, !.y = res.y, !.z = res.z,
                        !.z2 = res.z2, !.image = <<img>>]

\* find_object from result = get_depth_at_point(norm_x, norm_y) on.
Sampled(t, F, m, sam, r, fr) ==
  Fallback(t, F, m, sam, fr,
           Sampler(m, r, <<t.target[1][1], ColorShape.w>>, <<t.target[1][2], ColorShape.h>>, 0),
           under_mask(scene, sam.mask))

\* find_object from the first candidate's point on: the seed pixel, the
\* segmentation at the seed, the centroid of its mask.
Segmented(t, F, m, pt, sam, r, fr) ==
  LET seed == << seed_pixel(pt[2], ColorShape.w), seed_pixel(pt[1], ColorShape.h) >>
      t1 == [t EXCEPT !.seed = <<seed>>, !.sam = sam, !.sam_called = t.sam_model]
  IN IF sam.kind = "raised" THEN LocateError(t1, "Error calling Gemini")
     ELSE LET target == IF sam.kind = "mask" /\ sam.mask # {}
                        THEN centroid(sam.mask) ELSE seed
          IN Sampled([t1 EXCEPT !.target = <<target>>], F, m, sam, r, fr)

\* find_object once it holds the frame F (0: None).
Located(t, F, m, pre, prop, sam, r, fr) ==
  IF F = 0 THEN LocateError(t, "Could not get a frame from the camera")
  ELSE IF pre = "encode_failed" THEN LocateError(t, "Failed to encode image")
  ELSE IF pre = "no_key" THEN LocateError(t, "APIKEY not found")
  ELSE LET t1 == [t EXCEPT !.frame = F, !.prop = prop] IN
       IF prop.kind = "raised" THEN LocateError(t1, "Error calling Gemini")
       ELSE IF prop.kind = "bad_json" THEN LocateError(t1, "Failed to parse model response")
       ELSE IF no_candidates(prop) THEN LocateError(t1, "Object not found in the image")
       ELSE IF prop.point = <<>> THEN LocateError(t1, "Error calling Gemini")
       ELSE Segmented(t1, F, m, prop.point[1], sam, r, fr)

\* A store that writes over its newest entry.
put_overwrites(store, img) ==
  IF store = <<>> THEN <<img>> ELSE [store EXCEPT ![Len(store)] = img]

\* image_id = str(uuid.uuid4()); image_store[image_id] = img.  The identifier
\* of an entry is its place in the store.
put(store, img) == Append(store, img)

\* The store and the call's record once the call ended as t.
Stored(t) ==
  /\ image_store' = IF t.image # <<>> THEN put(image_store, t.image[1]) ELSE image_store
  /\ loc' = [t EXCEPT !.pc = "idle",
                      !.id = IF t.image # <<>> THEN Len(image_store') ELSE 0]

\* find_object from manager.get_frame() to its return.  The outcome of a step
\* is drawn only when the call gets to the step.
Locating(t) ==
  /\ \E pre \in IF FrameRead(manager, colorq) = 0 THEN { "ok" } ELSE Prechecks :
     \E prop \in IF FrameRead(manager, colorq) = 0 \/ pre # "ok"
                  THEN { NoLocate.prop } ELSE ProposalOutcomes :
     \E sam \in IF prop.kind = "point" THEN SamOutcomes(t.sam_model) ELSE { NoLocate.sam } :
     \E r \in IF sam.kind \in { "none", "raised" }
               THEN { "none" } ELSE SamplerReads(manager, depthq) :
     \E fr \in IF sam.kind = "mask" THEN FallbackReads(manager) ELSE { FALSE } :
     \E t2 \in { Located(t, FrameRead(manager, colorq), manager, pre, prop, sam, r, fr) } :
       /\ Stored(t2)
       /\ depthq' = IF t2.sampler_called THEN FALSE ELSE depthq
  /\ colorq' = IF ~manager.running \/ manager.queue = 0 THEN colorq ELSE 0
  /\ UNCHANGED <<manager, sessions, frames_sent, scene, got, bus_call, sample, fetched>>
  /\ UNCHANGED robotvars

\* find_object(object_description) up to time.sleep(2) or its return.
find_object ==
  /\ loc.pc = "idle"
  /\ Len(image_store) < MaxImages
  /\ IF manager.running THEN Locating(NewLocate("find_object"))
     ELSE /\ sessions < MaxSessions
          /\ \E o \in StartOutcomes, st \in StereoOutcomes, cal \in BOOLEAN, cl \in CloseOutcomes :
               /\ Starting(o, st, cal, cl)
               /\ loc' = IF o = "started"
                         THEN [NewLocate("find_object") EXCEPT !.pc = "warming"]
                         ELSE [NewLocate("find_object") EXCEPT !.kind = "raised"]
          /\ UNCHANGED <<frames_sent, scene, got, sample, image_store, fetched>>
          /\ UNCHANGED robotvars

\* find_object after time.sleep(2).
find_object_wake ==
  /\ loc.pc = "warming"
  /\ Locating(loc)

\* get_depth(x, y)
get_depth ==
  /\ loc.pc = "idle"
  /\ Len(image_store) < MaxImages
  /\ \E a \in DepthArgs, r \in SamplerReads(manager, depthq) :
       LET px == Max(0, Min(VirtualW - 1, Trunc(VirtualW, 2) + a[1]))
           py == Max(0, Min(VirtualH - 1, Trunc(VirtualH, 2) - a[2]))
       IN \E res \in { Sampler(manager, r, <<px, VirtualW>>, <<py, VirtualH>>,
                                FrameRead(manager, colorq)) } :
            LET t == [NewLocate("get_depth") EXCEPT
                        !.sampler_called = TRUE, !.direct = res.kind,
                        !.target = << <<px, py>> >>]
            IN /\ Stored(IF res.kind = "error" THEN LocateError(t, res.msg)
                         ELSE [t EXCEPT !.kind = "value", !.x = res.x, !.y = res.y,
                                        !.z = res.z, !.z2 = res.z2, !.frame = res.frame,
                                        !.image = IF res.frame = 0 THEN <<>>
                                                  ELSE << Image(res.frame, <<>>,
                                                                pixel(<<px, VirtualW>>, ColorShape.w),
                                                                pixel(<<py, VirtualH>>, ColorShape.h),
                                                                res.z) >>])
               /\ depthq' = IF r = "frame" THEN FALSE ELSE depthq
               /\ colorq' = IF res.kind = "point" /\ ~(~manager.running \/ manager.queue = 0)
                            THEN 0 ELSE colorq
  /\ UNCHANGED <<manager, sessions, frames_sent, scene, got, bus_call, sample, fetched>>
  /\ UNCHANGED robotvars

\* cv2.imencode('.jpg', img): the JPEG code of an image keeps its frame up to
\* the quantization step of the encoder.
imencode_jpg(img) == [img EXCEPT !.frame = (img.frame + 1) \div 2]
\* The image a client decodes from the code.
imdecode_jpg(code) == [code EXCEPT !.frame = 2 * code.frame - 1]

NoFetch == [id |-> 0, status |-> 0, body |-> <<>>]

\* get_image(image_id) of the image endpoint
get_image ==
  /\ \E id \in 1..(MaxImages + 1), ret \in BOOLEAN :
       fetched' = IF id \in DOMAIN image_store /\ ret
                  THEN [id |-> id, status |-> 200, body |-> <<imencode_jpg(image_store[id])>>]
                  ELSE [id |-> id, status |-> 404, body |-> <<>>]
  /\ UNCHANGED <<manager, sessions, colorq, depthq, frames_sent, scene, got, bus_call, sample>>
  /\ UNCHANGED <<image_store, loc>>
  /\ UNCHANGED robotvars

LocInit ==
  /\ image_store = <<>>
  /\ loc = NoLocate
  /\ fetched = NoFetch

\* ------------------------------------------------------------ specification

RobotInit ==
  /\ is_connected = FALSE
  /\ gripper_state = "unknown"
  /\ current_pose = 1
  /\ heap = [g \in {1} |-> InitPose]
  /\ snap = [c \in Callers |-> 0]
  /\ task = [c \in Callers |-> NewCall("none", <<>>)]

\* The state after the module-level singletons are constructed.
Init ==
  /\ RobotInit
  /\ CamInit
  /\ scene = BlankScene
  /\ sample = NoSampleCall
  /\ LocInit

\* The robot tools and the controller's connection, motion and gripper
\* methods, called by concurrent callers.
Next ==
  \E c \in Callers :
    \/ connect(c)
    \/ connect_wake(c)
    \/ disconnect(c)
    \/ get_gripper_state(c)
    \/ move_to_pose(c)
    \/ go_home(c)
    \/ move_wake(c)
    \/ open_gripper(c)
    \/ close_gripper(c)
    \/ gripper_wake(c)
    \/ open_gripper_async(c)
    \/ close_gripper_async(c)
    \/ go_home_async(c)
    \/ pickup_object_async(c)
    \/ get_robot_pose_async(c)

Spec == Init /\ [][Next]_vars

\* The cached pose, its writers and its readers: callers that move the
\* robot, are handed poses and store into the poses they were handed.
NextPose ==
  \E c \in Callers :
    \/ connect(c)
    \/ connect_wake(c)
    \/ get_pose(c)
    \/ get_status(c)
    \/ move_to_pose(c)
    \/ move_wake(c)
    \/ caller_write(c)

SpecPose == Init /\ [][NextPose]_vars

\* The frame bus: the application starting and stopping it, the camera
\* delivering frames, consumers reading them.
NextBus ==
  \/ start
  \/ stop
  \/ frame_arrives
  \/ depth_arrives
  \/ \E c \in Callers :
       \/ get_frame(c)
       \/ get_depth_frame(c)

SpecBus == Init /\ [][NextBus]_vars

\* The depth sampler in front of any of the scenes, on a bus that was never
\* started or was started once, in any of the ways start() can succeed.
InitDepth ==
  /\ RobotInit
  /\ \E on \in BOOLEAN, st \in StereoOutcomes, cal \in BOOLEAN :
       /\ manager = IF on THEN Started(CameraManagerInit, 1, "started", st, cal)
                           ELSE CameraManagerInit
       /\ sessions = IF on THEN 1 ELSE 0
       /\ bus_call = IF on THEN BusCall("start", "returned", 1, "") ELSE NoBusCall
  /\ colorq = 0
  /\ depthq = FALSE
  /\ frames_sent = 0
  /\ got = [c \in Callers |-> [op |-> "none", res |-> 0, at |-> 0, session |-> 0]]
  /\ scene \in DepthFrames
  /\ sample = NoSampleCall
  /\ LocInit

NextDepth ==
  \/ depth_arrives
  \/ get_depth_at_point
  \/ depth_retry

SpecDepth == InitDepth /\ [][NextDepth]_vars

\* The localizer tools in front of a scene, segmentation loaded or not, on a
\* bus that was never started or was started once; the camera delivering
\* color frames; clients of the image endpoint.
InitLocate ==
  /\ RobotInit
  /\ \E on \in BOOLEAN, st \in StereoOutcomes, cal \in BOOLEAN :
       /\ manager = IF on THEN Started(CameraManagerInit, 1, "started", st, cal)
                           ELSE CameraManagerInit
       /\ sessions = IF on THEN 1 ELSE 0
       /\ bus_call = IF on THEN BusCall("start", "returned", 1, "") ELSE NoBusCall
  /\ colorq = 0
  /\ depthq = FALSE
  /\ frames_sent = 0
  /\ got = [c \in Callers |-> [op |-> "none", res |-> 0, at |-> 0, session |-> 0]]
  /\ scene \in LocateScenes
  /\ sample = NoSampleCall
  /\ image_store = <<>>
  /\ loc \in { [NoLocate EXCEPT !.sam_model = b] : b \in BOOLEAN }
  /\ fetched = NoFetch

NextLocate ==
  \/ frame_arrives
  \/ find_object
  \/ find_object_wake

SpecLocate == InitLocate /\ [][NextLocate]_vars

\* The frame store: the two tools that put annotated images into it, on a
\* running bus, and the clients of the image endpoint.
InitStore ==
  /\ RobotInit
  /\ \E cal \in BOOLEAN :
       manager = Started(CameraManagerInit, 1, "started", "ok", cal)
  /\ sessions = 1
  /\ bus_call = BusCall("start", "returned", 1, "")
  /\ colorq = 0
  /\ depthq = FALSE
  /\ frames_sent = 0
  /\ got = [c \in Callers |-> [op |-> "none", res |-> 0, at |-> 0, session |-> 0]]
  /\ scene = DepthFrame(<<FrameShort, FrameLong>>, {5, 11})
  /\ sample = NoSampleCall
  /\ image_store = <<>>
  /\ loc = [NoLocate EXCEPT !.sam_model = TRUE]
  /\ fetched = NoFetch

NextStore ==
  \/ frame_arrives
  \/ find_object
  \/ get_depth
  \/ get_image

SpecStore == InitStore /\ [][NextStore]_vars

\* ------------------------------------------------------------------ claims

ConnectError == "Error: Failed to connect to robot."

\* The names of the commands a call issued, in order.
CmdNames(cm) == [i \in 1..Len(cm) |-> cm[i].cmd]

PickSequence ==
  <<"open_gripper", "move_to_pose", "move_to_pose", "close_gripper", "move_to_pose">>

\* A pick-up that ended after its connection check passed.
PickEnded(t) ==
  /\ t.op = "pickup_object_async"
  /\ t.pc = "idle"
  /\ t.result.kind # "none"
  /\ t.result.msg # ConnectError

\* C1: a pick-up with explicit coordinates issues open_gripper, move_to_pose
\* (approach), move_to_pose (descend), close_gripper, move_to_pose (lift), in
\* this order, none skipped or repeated: one that ended with no command having
\* failed has issued exactly these five.
C1_PickupIssuesTheSequence ==
  \A c \in Callers :
    (PickEnded(task[c]) /\ coords_given(task[c].args))
      => CmdNames(task[c].cmds) = PickSequence

\* C3: the approach move of a pick-up goes to (ref_x + camera_y,
\* ref_y - camera_x, ref_z - camera_z - grip offset) and its lift move to the
\* same (x, y) at that z plus the lift offset, ref being the pose read at the
\* start of the pick-up.
C3_ApproachAndLiftTargets ==
  \A c \in Callers :
    (PickEnded(task[c]) /\ coords_given(task[c].args))
      => LET t == task[c]
             xt == x_target(t.ref.position.x, t.args[2][1])
             yt == y_target(t.ref.position.y, t.args[1][1])
             zt == z_target(t.ref.position.z, t.args[3][1])
         IN /\ Len(t.cmds) = 5
            /\ t.cmds[2] = MoveCmd(xt, yt, zt)
            /\ t.cmds[5] = MoveCmd(xt, yt, lift_z(zt))

\* C4: pick-up with x_mm = y_mm = z_mm = 0 from the reference pose
\* (100, 50, 200) has the approach target (100 + 0, 50 - 0, 200 - 0 - grip
\* offset); in tenths, (1000, 500, 2000 - GripOffset).
C4_ApproachFromReferencePose ==
  \A c \in Callers :
    ( /\ PickEnded(task[c])
      /\ task[c].args = << <<0>>, <<0>>, <<0>> >>
      /\ task[c].ref.position = Pos(1000, 500, 2000) )
      => /\ Len(task[c].cmds) >= 2
         /\ task[c].cmds[2] = MoveCmd(1000, 500, 2000 - GripOffset)

\* The tools that wrap one primitive.
PrimitiveTools ==
  {"open_gripper_async", "close_gripper_async", "go_home_async", "get_robot_pose_async"}

\* C5: a primitive invoked while Disconnected makes exactly one reconnect
\* attempt and then either performs its action (issues its command, or hands
\* back the pose) or fails with the device-unavailable error.
C5_OneReconnectThenActOrFail ==
  \A c \in Callers :
    LET t == task[c] IN
    (t.op \in PrimitiveTools /\ t.pc = "idle" /\ t.attempts > 0)
      => /\ t.attempts = 1
         /\ t.result.kind = "value"
         /\ \/ t.result.msg = ConnectError
            \/ t.cmds # <<>>
            \/ t.op = "get_robot_pose_async"

\* C6: every public operation returns a value; none ends with an exception
\* leaving it.
C6_NoOperationRaises ==
  \A c \in Callers : task[c].result.kind # "raised"

\* C7: a pick-up called without explicit coordinates whose localization
\* succeeded goes on to issue the motion sequence at the localized point.
C7_LocalizedPickupMoves ==
  \A c \in Callers :
    (PickEnded(task[c]) /\ ~coords_given(task[c].args) /\ task[c].find = "found")
      => CmdNames(task[c].cmds) = PickSequence

\* A step in which caller c's connect ends, and one in which it ends failed.
ConnectEnds(c) == task[c].pc = "connecting" /\ task'[c].pc # "connecting"
ConnectFails(c) ==
  /\ ConnectEnds(c)
  /\ task'[c].pc = "idle"
  /\ task'[c].result.msg \in {"False", ConnectError}
\* A step that is caller c's disconnect.
Disconnects(c) ==
  /\ task[c].pc = "idle"
  /\ task'[c] = Finish(NewCall("disconnect", <<>>), Returned("True", <<>>))
  /\ \A d \in Callers \ {c} : task'[d] = task[d]

\* C8: the connection state starts Disconnected; it changes only from
\* Disconnected to Connected in a step where a connect succeeds and from
\* Connected to Disconnected in a disconnect; a connect that fails leaves it
\* as it is; no motion or gripper step changes it.
C8_ConnectionStateMachine ==
  /\ is_connected = FALSE
  /\ [][ /\ (is_connected' # is_connected) =>
              \E c \in Callers :
                \/ ConnectEnds(c) /\ ~ConnectFails(c) /\ ~is_connected /\ is_connected'
                \/ Disconnects(c) /\ is_connected /\ ~is_connected'
         /\ \A c \in Callers : ConnectFails(c) => is_connected' = is_connected
       ]_vars

\* C8 happens: a connect has failed and a disconnect has been made, the
\* state is Disconnected, and a gripper command succeeded in between.
C8_Witness ==
  \E c, d \in Callers :
    /\ task[c].op = "connect" /\ task[c].pc = "idle" /\ task[c].result.msg = "False"
    /\ task[d].op = "disconnect" /\ task[d].pc = "idle"
    /\ ~is_connected
    /\ gripper_state = "closed"

\* A step in which caller c's move ends successfully.
MoveSucceeds(c) ==
  /\ task[c].pc = "moving"
  /\ task'[c].pc = "idle"
  /\ task'[c].result.msg \in {"True", "Robot moved to home position successfully."}

\* The arguments of the move_to_pose a call is in: its own, or go_home's.
MoveArgs(t) ==
  IF t.op = "move_to_pose" THEN t.args
  ELSE <<home_pose.position.x, home_pose.position.y, home_pose.position.z,
         <<home_pose.orientation.roll>>, <<home_pose.orientation.pitch>>,
         <<home_pose.orientation.yaw>> >>

C10_HandedPoseIsACopy ==
  [][ (task' = task /\ snap' = snap /\ current_pose' = current_pose)
        => PoseValue' = PoseValue ]_vars

\* A step in which caller c's gripper command ends successfully.
GripSucceeds(c) ==
  /\ task[c].pc = "gripping"
  /\ task'[c].pc = "idle"
  /\ task'[c].result.msg \in
       {"True", "Gripper opened successfully.", "Gripper closed successfully."}

\* C11: the gripper state starts Unknown; a step in which an open_gripper
\* succeeds leaves it Open and one in which a close_gripper succeeds leaves it
\* Closed; it changes in no other step (failed gripper calls and non-gripper
\* operations leave it as it is), and once it is not Unknown it never is
\* again.
C11_GripperStateMachine ==
  /\ gripper_state = "unknown"
  /\ [][ /\ \A c \in Callers :
              GripSucceeds(c) =>
                gripper_state' = (IF task[c].op \in {"open_gripper", "open_gripper_async"}
                                  THEN "open" ELSE "closed")
         /\ (gripper_state' # gripper_state) => \E c \in Callers : GripSucceeds(c)
         /\ (gripper_state # "unknown") => (gripper_state' # "unknown")
       ]_vars

\* C11 happens: the gripper was opened, a later close_gripper failed after
\* its command was issued, another caller's go_home succeeded, and the state
\* is still Open.
C11_Witness ==
  \E c, d \in Callers :
    /\ task[c].op = "close_gripper" /\ task[c].pc = "idle"
    /\ task[c].result.msg = "False" /\ task[c].cmds # <<>>
    /\ task[d].op = "go_home" /\ task[d].pc = "idle" /\ task[d].result.msg = "True"
    /\ gripper_state = "open"

\* C12: start() called while the bus is running changes no field of the bus
\* and creates no device, pipeline or queue.
C12_StartIdempotent ==
  [][ (manager.running /\ bus_call'.op = "start" /\ bus_call' # bus_call)
        => /\ manager' = manager
           /\ sessions' = sessions
           /\ colorq' = colorq
           /\ depthq' = depthq ]_vars

\* C12 happens: start() returned on a running bus whose queues hold frames.
C12_Witness ==
  /\ bus_call = BusCall("start", "returned", 0, "")
  /\ manager.running
  /\ manager.intrinsics # <<>>
  /\ colorq # 0
  /\ depthq

\* C13: after stop() the bus is not running, the device handle is cleared
\* and the pipeline and every frame queue of the session are cleared.
C13_StopReleasesEverything ==
  (bus_call.op = "stop")
    => /\ ~manager.running
       /\ manager.device = 0
       /\ manager.pipeline = 0
       /\ manager.queue = 0
       /\ manager.depthQueue = 0
       /\ manager.spatialQueue = 0

\* C14: after a start() that failed the bus is not running, holds no device
\* and no pipeline, and holds no queue created by the failed attempt.
C14_FailedStartUnwinds ==
  (bus_call.op = "start" /\ bus_call.outcome = "raised")
    => /\ ~manager.running
       /\ manager.device = 0
       /\ manager.pipeline = 0
       /\ manager.queue = 0
       /\ (bus_call.device # 0) =>
            /\ manager.depthQueue # bus_call.device
            /\ manager.spatialQueue # bus_call.device
            /\ manager.configQueue # bus_call.device

\* C15: two get_color_frame() calls made while the bus is running, with no
\* frame arriving between them, return the same frame.
C15_ReadsReturnSameFrame ==
  \A c, d \in Callers :
    ( /\ got[c].op = "get_frame" /\ got[d].op = "get_frame"
      /\ got[c].session # 0 /\ got[c].session = got[d].session
      /\ got[c].at = got[d].at )
      => got[c].res = got[d].res

\* A sample that ended after it obtained a depth frame.
SampleDone == sample.pc = "idle" /\ sample.got_frame

\* The depth at the pixel the sample used, and the pixels with a valid sample
\* in the 11x11 window around it, clipped at the frame border.
DirectDepth == scene.d[<<sample.result.py, sample.result.px>>]
WindowValid ==
  { p \in DOMAIN scene.d :
      /\ p[1] >= sample.result.py - roi_size /\ p[1] <= sample.result.py + roi_size
      /\ p[2] >= sample.result.px - roi_size /\ p[2] <= sample.result.px + roi_size
      /\ scene.d[p] > 0 }

\* The pixel a coordinate n = <<num, den>> stands for on a side of the given
\* size: int(n * size), brought into 0..size-1.
ClampedPixel(n, size) ==
  LET raw == Trunc(n[1] * size, n[2]) IN
  IF raw < 0 THEN 0 ELSE IF raw > size - 1 THEN size - 1 ELSE raw

\* C16: for every normalized point, also below 0, exactly 1 and above 1, the
\* pixel is converted against the depth frame's own width and height and
\* lies in [0, width-1] x [0, height-1], the window is clipped to the frame,
\* and no read falls outside the frame.
C16_ReadsStayInsideFrame ==
  SampleDone
    => LET r == sample.result IN
       /\ r.px = ClampedPixel(sample.x, scene.w)
       /\ r.py = ClampedPixel(sample.y, scene.h)
       /\ r.px >= 0 /\ r.px <= scene.w - 1
       /\ r.py >= 0 /\ r.py <= scene.h - 1
       /\ r.msg # "Failed to calculate depth"
       /\ \A i \in 1..Len(r.window) :
            /\ 0 <= r.window[i].x1 /\ r.window[i].x1 <= r.window[i].x2
            /\ r.window[i].x2 <= scene.w
            /\ 0 <= r.window[i].y1 /\ r.window[i].y1 <= r.window[i].y2
            /\ r.window[i].y2 <= scene.h

\* C16 happens: a point with x exactly 1 and y below 0 was sampled at the
\* last column and the first row, and its depth came from the clipped window.
C16_Witness ==
  /\ SampleDone
  /\ sample.x = <<1, 1>> /\ sample.y = <<-1, 2>>
  /\ sample.result.px = scene.w - 1 /\ sample.result.py = 0
  /\ sample.result.window # <<>>
  /\ sample.result.kind = "point"

\* C17 as stated: with depth 0 at the pixel and a valid sample in the window,
\* the sample succeeds and its z is the median of the window's valid samples;
\* with a valid depth at the pixel, z is that depth and the window is not
\* consulted.
C17_WindowMedian ==
  SampleDone
    => /\ (DirectDepth = 0 /\ WindowValid # {})
            => /\ sample.result.kind = "point"
               /\ 2 * sample.result.z = median2(scene, WindowValid)
       /\ (DirectDepth # 0)
            => /\ sample.result.kind = "point"
               /\ sample.result.z = DirectDepth
               /\ sample.result.window = <<>>

\* C17: with depth 0 at the pixel and a valid sample in the window, the
\* sample succeeds and its z is the median of the window's valid samples
\* truncated to an integer (the median of an even number of samples is the
\* mean of the two middle ones); with a valid depth at the pixel, z is that
\* depth and the window is not consulted.
C17_WindowMedianTruncated ==
  SampleDone
    => /\ (DirectDepth = 0 /\ WindowValid # {})
            => /\ sample.result.kind = "point"
               /\ sample.result.z = median2(scene, WindowValid) \div 2
       /\ (DirectDepth # 0)
            => /\ sample.result.kind = "point"
               /\ sample.result.z = DirectDepth
               /\ sample.result.window = <<>>

\* C17 happens: the pixel had depth 0, its window two valid samples whose
\* mean is not an integer (and the frame a valid sample outside the window),
\* and the sample returned a point.
C17_Witness ==
  /\ SampleDone
  /\ DirectDepth = 0
  /\ Cardinality(WindowValid) = 2
  /\ median2(scene, WindowValid) % 2 = 1
  /\ \E p \in DOMAIN scene.d : scene.d[p] > 0 /\ p \notin WindowValid
  /\ sample.result.kind = "point"

\* C18: with depth 0 at the pixel and in the whole window the sample fails
\* with the invalid-depth error and carries no coordinates; no sample returns
\* a point with z = 0.
C18_InvalidDepthFails ==
  SampleDone
    => /\ (DirectDepth = 0 /\ WindowValid = {})
            => /\ sample.result.kind = "error"
               /\ sample.result.msg = "Invalid depth (0) at point"
               /\ sample.result.x = 0 /\ sample.result.y = 0 /\ sample.result.z = 0
       /\ (sample.result.kind = "point") => (sample.result.z # 0)

\* C18 happens: a sample failed with the invalid-depth error on a frame that
\* has valid samples, all of them outside the window.
C18_Witness ==
  /\ SampleDone
  /\ sample.result.msg = "Invalid depth (0) at point"
  /\ sample.result.window # <<>>
  /\ \E p \in DOMAIN scene.d : scene.d[p] > 0

\* q is the quotient n / d (d > 0) truncated toward zero.
IsTruncated(q, n, d) ==
  IF n >= 0 THEN q * d <= n /\ n < (q + 1) * d
  ELSE (q - 1) * d < n /\ n <= q * d

\* C19: a successful sample at pixel (px, py) with depth z returns z_mm = z,
\* x_mm = (px - cx) z / fx and y_mm = -(py - cy) z / fy, truncated to
\* integers; a pixel below the principal point row has y_mm <= 0 and one above
\* it y_mm >= 0; without calibration the intrinsics are fx = fy = 882.5,
\* cx = width / 2, cy = height / 2 and the sample still succeeds.  (Depth,
\* focal lengths and principal point are counted in halves.)
C19_PinholeProjection ==
  SampleDone
    => LET r == sample.result
           k == IF manager.intrinsics = <<>>
                THEN [fx2 |-> DefaultFocal2, fy2 |-> DefaultFocal2,
                      cx2 |-> scene.w, cy2 |-> scene.h]
                ELSE manager.intrinsics[1]
       IN /\ (r.kind = "point")
               => /\ IsTruncated(r.z, r.z2, 2)
                  /\ IsTruncated(r.x, (2 * r.px - k.cx2) * r.z2, 2 * k.fx2)
                  /\ IsTruncated(r.y, (0 - (2 * r.py - k.cy2)) * r.z2, 2 * k.fy2)
                  /\ (2 * r.py > k.cy2) => (r.y <= 0)
                  /\ (2 * r.py < k.cy2) => (r.y >= 0)
          /\ (manager.intrinsics = <<>> /\ (DirectDepth # 0 \/ WindowValid # {}))
               => r.kind = "point"

\* C19 happens: without calibration, a sample below and left of the
\* principal point returned a point with negative x_mm and y_mm.
C19_Witness ==
  /\ SampleDone
  /\ manager.intrinsics = <<>>
  /\ sample.result.kind = "point"
  /\ 2 * sample.result.py > scene.h
  /\ sample.result.y < 0
  /\ sample.result.x < 0

\* C20: the sampler reads the depth queue at most 1 + 5 times; it retries
\* only while no read has returned a frame and stops at the first frame; when
\* all reads returned no data it has ended with the 'could not get depth
\* frame' error.
C20_BoundedRetries ==
  /\ sample.reads <= 1 + Retries
  /\ (sample.pc = "retry") => (sample.reads <= Retries /\ ~sample.got_frame)
  /\ (sample.got_frame) => (sample.pc = "idle")
  /\ (sample.result.msg = "Could not get depth frame")
       => (sample.pc = "idle" /\ sample.reads = 1 + Retries /\ ~sample.got_frame)
  /\ (sample.reads = 1 + Retries /\ ~sample.got_frame)
       => (sample.pc = "idle" /\ sample.result.kind = "error")

\* C20 happens: on a running bus with a depth queue every one of the six
\* reads returned no data and the sample ended with the error.
C20_Witness ==
  /\ manager.running
  /\ manager.depthQueue # 0
  /\ sample.pc = "idle"
  /\ sample.reads = 1 + Retries
  /\ sample.result.msg = "Could not get depth frame"

\* C27 (what a run of the program can refute of it): two pick-ups with
\* explicit coordinates that were in flight together, each having made its own
\* reconnect, both run their sequence to a reported result (success, or the
\* step that failed), so that primitives of the one can fall between the
\* close_gripper and the lift of the other.
C27_ConcurrentPickupsRun ==
  \A c, d \in Callers :
    ( /\ c # d
      /\ PickEnded(task[c]) /\ coords_given(task[c].args) /\ task[c].attempts = 1
      /\ PickEnded(task[d]) /\ coords_given(task[d].args) /\ task[d].attempts = 1 )
      => /\ task[c].result.kind = "value"
         /\ task[d].result.kind = "value"
         /\ "close_gripper" \in { task[c].cmds[i].cmd : i \in 1..Len(task[c].cmds) }

\* C28: whenever the bus is running, the color queue and the depth queue it
\* reads from are queues of the running device (or absent): no read goes to a
\* queue of an earlier session.
C28_QueuesOfCurrentSession ==
  manager.running
    => /\ manager.queue \in {0, manager.device}
       /\ manager.depthQueue \in {0, manager.device}

\* A step of caller c's pick-up that was called with a coordinate missing.
PartialPickupStep(c) ==
  /\ task'[c] # task[c]
  /\ task'[c].op = "pickup_object_async"
  /\ ~coords_given(task'[c].args)

LocateDone == loc.op = "find_object" /\ loc.pc = "idle" /\ loc.kind # "none"

\* C21: a find_object whose proposal model returns an empty candidate list
\* fails with the object-not-found error; it has computed no seed, called
\* neither the segmentation model nor the depth sampler and stored no image.
C21_NoCandidateFails ==
  (LocateDone /\ loc.prop.kind = "empty")
    => /\ loc.kind = "error"
       /\ loc.msg = "Object not found in the image"
       /\ loc.seed = <<>>
       /\ ~loc.sam_called
       /\ ~loc.sampler_called
       /\ loc.image = <<>>
       /\ loc.id = 0

\* C21 happens: with the segmentation model loaded and a frame in hand, the
\* proposal came back empty and the call ended.
C21_Witness ==
  /\ LocateDone
  /\ loc.prop.kind = "empty"
  /\ loc.sam_model
  /\ loc.frame # 0
  /\ loc.kind = "error"

\* Segmentation was unavailable or failed in the call: the model is not
\* loaded, the call raised, no mask came back, or the mask has no area.
SegmentationFailed ==
  /\ loc.seed # <<>>
  /\ \/ loc.sam.kind \in { "not_loaded", "raised", "no_masks" }
     \/ loc.sam.kind = "mask" /\ loc.sam.mask = {}

\* C22: whenever segmentation is unavailable or fails, find_object keeps the
\* seed pixel as its target and goes on to the depth sample, so that it never
\* fails because of segmentation alone.
C22_SegmentationNeverFails ==
  (LocateDone /\ SegmentationFailed)
    => /\ loc.target = loc.seed
       /\ loc.sampler_called

\* The valid depths of the scene under a mask of the color frame, the mask
\* scaled to the depth frame by nearest neighbour.
DepthsUnder(mask) ==
  { q \in Pixels(scene.h, scene.w) :
      /\ scene.d[q] > 0
      /\ << (q[1] * ColorShape.h) \div scene.h, (q[2] * ColorShape.w) \div scene.w >> \in mask }

C24_DiskCentroid ==
  (LocateDone /\ loc.sam.kind = "mask" /\ loc.sam.disk # <<>> /\ loc.target # <<>>)
    => LET k == loc.sam.disk[1]
           t == loc.target[1]
       IN /\ 2 * t[1] - k[1] \in -2..2
          /\ 2 * t[2] - k[2] \in -2..2
          /\ \A p \in loc.sam.mask : p \in ColorPixels

\* C24 happens: the mask was the disk of center (2.5, 5.5) and radius 1.5,
\* the seed was another pixel, and the target became pixel (2, 5).
C24_Witness ==
  /\ LocateDone
  /\ loc.sam.disk = << <<5, 11, 3>> >>
  /\ Cardinality(loc.sam.mask) = 4
  /\ loc.target = << <<2, 5>> >>
  /\ loc.seed = << <<6, 2>> >>

Stores ==
  /\ loc'.kind = "value"
  /\ loc'.op = "find_object" \/ loc'.frame # 0

\* C26: a find_object that succeeds, and a get_depth that succeeds and has a
\* color frame, adds exactly one entry to the store, under an identifier not
\* in use, and returns that identifier; the entry is the annotated image of
\* the call's frame.  A call that returns an error, and a get_depth without
\* a color frame, leaves the store as it was, and so does every other step.
C26_OneEntryPerSuccess ==
  [][ IF loc' # loc /\ loc'.pc = "idle" /\ Stores
      THEN /\ loc'.id \notin DOMAIN image_store
           /\ DOMAIN image_store' = DOMAIN image_store \cup { loc'.id }
           /\ \A i \in DOMAIN image_store : image_store'[i] = image_store[i]
           /\ image_store'[loc'.id].frame = loc'.frame
           /\ image_store'[loc'.id].label = loc'.z
           /\ loc'.image = << image_store'[loc'.id] >>
      ELSE /\ image_store' = image_store
           /\ loc' # loc => loc'.id = 0 /\ loc'.image = <<>> ]_vars

\* C26 happens: a find_object put the image of a segmented frame into the
\* store, and a later get_depth with a color frame put a second one and
\* returned its identifier.
C26_Witness ==
  /\ Len(image_store) = 2
  /\ image_store[1].overlay # <<>>
  /\ loc.op = "get_depth"
  /\ loc.kind = "value"
  /\ loc.id = 2
  /\ image_store[2].frame = 2
  /\ image_store[1].frame = 1

\* C29: the seed pixel find_object passes to the segmentation model lies
\* inside the color frame.
C29_SeedInsideFrame ==
  (loc.op = "find_object" /\ loc.sam_called)
    => /\ loc.seed[1][1] \in 0..(ColorShape.w - 1)
       /\ loc.seed[1][2] \in 0..(ColorShape.h - 1)

====
